---- MODULE Spec2Model ----
(***************************************************************************)
(* A model of async_rwlock.RwLock (src/async_rwlock/__init__.py): one      *)
(* guarded value, an admission mutex (_wlock, an asyncio.Lock), a drain    *)
(* condition (_rcond, an asyncio.Condition with a lock of its own) and a   *)
(* reader count, used by cooperatively scheduled tasks.                    *)
(*                                                                         *)
(* A step of the model is what one task runs between two suspension        *)
(* points of the event loop.  The only places where read() and write()     *)
(* can suspend are the awaits inside Lock.acquire and Condition.wait; the  *)
(* body of an `async with lock.read()/write()` block may suspend anywhere, *)
(* so every point of a critical section is a state of the model.           *)
(***************************************************************************)
EXTENDS Integers, Sequences, FiniteSets, TLC

\* ---------------------------------------------------------------- bounds
NTasks == 3
MaxVal == 1
MaxDepth == 2

Tasks == 1..NTasks
Values == 0..MaxVal
\* RwLock(0) in the tests: the constructor's argument.
InitValue == 0

VARIABLES
    value,      \* RwLock._value
    readers,    \* RwLock._readers
    wlock,      \* RwLock._wlock: [locked, waiters], an asyncio.Lock
    rlock,      \* the lock of RwLock._rcond: [locked, waiters]
    cwaiters,   \* RwLock._rcond._waiters: the tasks inside Condition.wait
    pc,         \* where each task is suspended
    fut,        \* the state of the future each task awaits
    creq,       \* a CancelledError is to be thrown into the task when it resumes
    stack,      \* the guards each task holds, innermost last
    written,    \* history: the argument of the last set_value (or the initial value)
    late,       \* history: the task's call came after a re-entrant call got stuck
    err         \* history: a RuntimeError was raised by Lock.release/Condition.notify

vars == <<value, readers, wlock, rlock, cwaiters, pc, fut, creq, stack, written, late, err>>

\* The program state as one record, so that the straight-line code of a step
\* is a composition of functions on it.
St ==
    [value |-> value, readers |-> readers, wlock |-> wlock, rlock |-> rlock,
     cwaiters |-> cwaiters, pc |-> pc, fut |-> fut, creq |-> creq,
     stack |-> stack, written |-> written, late |-> late, err |-> err]

Apply(s) ==
    /\ value' = s.value
    /\ readers' = s.readers
    /\ wlock' = s.wlock
    /\ rlock' = s.rlock
    /\ cwaiters' = s.cwaiters
    /\ pc' = s.pc
    /\ fut' = s.fut
    /\ creq' = s.creq
    /\ stack' = s.stack
    /\ written' = s.written
    /\ late' = s.late
    /\ err' = s.err

NewLock == [locked |-> FALSE, waiters |-> <<>>]

\* RwLock.__init__
Init ==
    /\ value = InitValue
    /\ readers = 0
    /\ wlock = NewLock
    /\ rlock = NewLock
    /\ cwaiters = <<>>
    /\ pc = [t \in Tasks |-> "idle"]
    /\ fut = [t \in Tasks |-> "none"]
    /\ creq = [t \in Tasks |-> FALSE]
    /\ stack = [t \in Tasks |-> <<>>]
    /\ written = InitValue
    /\ late = [t \in Tasks |-> FALSE]
    /\ err = FALSE

\* ------------------------------------------------ asyncio.Lock, Condition
Remove(q, t) == SelectSeq(q, LAMBDA x : x # t)

\* Faulty variant: acquire() takes a free lock although tasks are queued.
FastBarging(s, L) == ~s[L].locked

\* Lock.acquire's test for taking the lock without suspending: unlocked, and
\* every queued waiter cancelled.
Fast(s, L) ==
    /\ ~s[L].locked
    /\ \A i \in 1..Len(s[L].waiters) : s.fut[s[L].waiters[i]] = "cancelled"

Lock(s, L) == [s EXCEPT ![L].locked = TRUE]

\* Lock._wake_up_first: set the result of the first waiter's future unless it
\* is done (has a result or is cancelled).
WakeUpFirst(s, L) ==
    IF s[L].waiters = <<>> THEN s
    ELSE LET f == Head(s[L].waiters)
         IN  IF s.fut[f] = "pending" THEN [s EXCEPT !.fut[f] = "done"] ELSE s

\* Faulty variant: release() resets the lock and wakes nobody.
ReleaseNoWake(s, L) ==
    IF s[L].locked THEN [s EXCEPT ![L].locked = FALSE]
    ELSE [s EXCEPT !.err = TRUE]

\* Lock.release; on an unlocked lock it raises RuntimeError.
Release(s, L) ==
    IF s[L].locked THEN WakeUpFirst([s EXCEPT ![L].locked = FALSE], L)
    ELSE [s EXCEPT !.err = TRUE]

\* Lock.acquire's slow path up to its await: a new future joins the waiters.
Enqueue(s, L, t, at) ==
    [s EXCEPT ![L].waiters = Append(@, t), !.fut[t] = "pending", !.pc[t] = at]

\* Faulty variant: notify() wakes nobody.
NotifyNone(s) ==
    IF ~s.rlock.locked THEN [s EXCEPT !.err = TRUE] ELSE s

\* Condition.notify(1): the first waiter whose future is not done.
Notify(s) ==
    LET live == SelectSeq(s.cwaiters, LAMBDA x : s.fut[x] = "pending")
    IN  IF ~s.rlock.locked THEN [s EXCEPT !.err = TRUE]
        ELSE IF live = <<>> THEN s
        ELSE [s EXCEPT !.fut[Head(live)] = "done"]

\* ------------------------------------------------------ guards and unwinding
Frame(k, v) == [k |-> k, v |-> v]
Push(s, t, k, v) == [s EXCEPT !.stack[t] = Append(@, Frame(k, v)), !.pc[t] = "cs"]
Pop(s, t) == [s EXCEPT !.stack[t] = SubSeq(@, 1, Len(@) - 1)]
Top(s, t) == s.stack[t][Len(s.stack[t])]

\* Control returns to the caller of the `async with` block that just ended.
Return(s, t) ==
    [s EXCEPT !.pc[t] = IF s.stack[t] = <<>> THEN "done" ELSE "cs"]

\* Faulty variant: `self._readers -= 2`.
DecrementTwice(n) == n - 2

\* `self._readers -= 1` (line 49)
Decrement(n) == n - 1

\* Faulty variant: `if self._readers == 1`.
LastReaderOffByOne(n) == n = 1

\* `if self._readers == 0` (line 50)
LastReader(n) == n = 0

RECURSIVE Unwind(_, _)

\* read()'s finally block once the condition's lock is held (lines 49-51),
\* then the exit of the block; exc: an exception is propagating.
ReadReleaseLocked(s, t, exc) ==
    LET s1 == [s EXCEPT !.readers = Decrement(@)]
        s2 == IF LastReader(s1.readers) THEN Notify(s1) ELSE s1
        s3 == Pop(Release(s2, "rlock"), t)
    IN  IF exc THEN Unwind(s3, t) ELSE Return(s3, t)

\* read()'s finally block (lines 47-48): `async with self._rcond`.
ReadRelease(s, t, exc) ==
    IF Fast(s, "rlock") THEN ReadReleaseLocked(Lock(s, "rlock"), t, exc)
    ELSE Enqueue(s, "rlock", t, IF exc THEN "r_rcond_out_x" ELSE "r_rcond_out")

\* The exit of write()'s `async with self._wlock` (line 70) after the yield.
WriteRelease(s, t, exc) ==
    LET s1 == Pop(Release(s, "wlock"), t)
    IN  IF exc THEN Unwind(s1, t) ELSE Return(s1, t)

\* Faulty variant: read() without try/finally, an exception skips the release.
UnwindNoFinally(s, t) ==
    IF s.stack[t] = <<>> THEN [s EXCEPT !.pc[t] = "cancelled"]
    ELSE IF Top(s, t).k = "read"
    THEN [Pop(s, t) EXCEPT !.pc[t] = "cancelled"]
    ELSE WriteRelease(s, t, TRUE)

\* An exception (CancelledError) leaves the task's current frame: every guard
\* the task holds is released on the way out, innermost first.
Unwind(s, t) ==
    IF s.stack[t] = <<>> THEN [s EXCEPT !.pc[t] = "cancelled"]
    ELSE IF Top(s, t).k = "read" THEN ReadRelease(s, t, TRUE)
    ELSE WriteRelease(s, t, TRUE)

\* Faulty variant: read() admits without counting the reader.
IncrementNone(n) == n

\* ------------------------------------------------------------------ read()
\* `self._readers += 1` (line 44)
Increment(n) == n + 1

\* Faulty variant: read() yields inside `async with self._wlock`, holding the
\* admission mutex for the whole read.
ReadAdmitHolding(s, t) ==
    LET s1 == [s EXCEPT !.readers = Increment(@)]
    IN  Push(Release(s1, "rlock"), t, "read", s1.value)

\* Lines 44-46 with both locks held: count the reader, leave both `async
\* with` blocks, yield the value.
ReadAdmit(s, t) ==
    LET s1 == [s EXCEPT !.readers = Increment(@)]
        s2 == Release(Release(s1, "rlock"), "wlock")
    IN  Push(s2, t, "read", s2.value)

\* Line 43: `async with self._rcond`, holding _wlock.
ReadHaveW(s, t) ==
    IF Fast(s, "rlock") THEN ReadAdmit(Lock(s, "rlock"), t)
    ELSE Enqueue(s, "rlock", t, "r_rcond_in")

\* Faulty variant: read() does not take the admission mutex.
ReadCallNoMutex(s, t) ==
    IF Fast(s, "rlock")
    THEN LET s1 == [s EXCEPT !.readers = Increment(@)]
         IN  Push(s1, t, "read", s1.value)
    ELSE Enqueue(s, "rlock", t, "r_rcond_in")

\* Line 42: `async with self._wlock`.
ReadCall(s, t) ==
    IF Fast(s, "wlock") THEN ReadHaveW(Lock(s, "wlock"), t)
    ELSE Enqueue(s, "wlock", t, "r_wlock")

\* ----------------------------------------------------------------- write()
\* Faulty variant: the drain loop tolerates one live reader.
MustDrainOffByOne(n) == n > 1

\* `while self._readers > 0` (line 72)
MustDrain(n) == n > 0

\* Condition.wait up to its await: release the condition's lock, queue a future.
Wait(s, t) ==
    LET s1 == IF s.rlock.locked THEN Release(s, "rlock") ELSE [s EXCEPT !.err = TRUE]
    IN  [s1 EXCEPT !.cwaiters = Append(@, t), !.fut[t] = "pending", !.pc[t] = "w_drain"]

\* Faulty variant: write() leaves `async with self._wlock` before it yields, as
\* read() does.
DrainLoopUnlocked(s, t) ==
    IF MustDrain(s.readers) THEN Wait(s, t)
    ELSE Push(Release(Release(s, "rlock"), "wlock"), t, "write", InitValue)

\* Faulty variant: write() yields the Writer inside `async with self._rcond`.
DrainLoopHoldingCond(s, t) ==
    IF MustDrain(s.readers) THEN Wait(s, t)
    ELSE Push(s, t, "write", InitValue)

\* Lines 72-74 with both locks held: wait while readers are live, then leave
\* the condition's block and yield the Writer, keeping _wlock.
DrainLoop(s, t) ==
    IF MustDrain(s.readers) THEN Wait(s, t)
    ELSE Push(Release(s, "rlock"), t, "write", InitValue)

\* Line 71: `async with self._rcond`, holding _wlock.
WriteHaveW(s, t) ==
    IF Fast(s, "rlock") THEN DrainLoop(Lock(s, "rlock"), t)
    ELSE Enqueue(s, "rlock", t, "w_rcond")

\* Faulty variant: write() does not take the admission mutex.
WriteCallNoMutex(s, t) == WriteHaveW(s, t)

\* Line 70: `async with self._wlock`.
WriteCall(s, t) ==
    IF Fast(s, "wlock") THEN WriteHaveW(Lock(s, "wlock"), t)
    ELSE Enqueue(s, "wlock", t, "w_wlock")

\* CancelledError leaves write() from inside `async with self._rcond` with the
\* condition's lock held: both blocks are left.
WriteAbort(s, t) == Unwind(Release(Release(s, "rlock"), "wlock"), t)

\* Condition.wait's finally: reacquire the condition's lock, also when
\* cancelled, then return to the loop or raise the CancelledError.
Reacquire(s, t, cancelled) ==
    IF Fast(s, "rlock")
    THEN IF cancelled THEN WriteAbort(Lock(s, "rlock"), t)
         ELSE DrainLoop(Lock(s, "rlock"), t)
    ELSE Enqueue(s, "rlock", t, IF cancelled THEN "w_reacq_c" ELSE "w_reacq")

\* --------------------------------------------------- resuming from an await
LockWaits == {"r_wlock", "w_wlock", "r_rcond_in", "r_rcond_out", "r_rcond_out_x",
              "w_rcond", "w_reacq", "w_reacq_c"}
RcondWaits == LockWaits \ {"r_wlock", "w_wlock"}

LockOf(at) == IF at \in {"r_wlock", "w_wlock"} THEN "wlock" ELSE "rlock"

\* Lock.acquire after its await returned: leave the waiters, take the lock,
\* and go on in read() or write().
Acquired(s, t) ==
    LET at == s.pc[t]
        L  == LockOf(at)
        s1 == Lock([s EXCEPT ![L].waiters = Remove(@, t), !.fut[t] = "none"], L)
    IN  CASE at = "r_wlock"       -> ReadHaveW(s1, t)
          [] at = "w_wlock"       -> WriteHaveW(s1, t)
          [] at = "r_rcond_in"    -> ReadAdmit(s1, t)
          [] at = "r_rcond_out"   -> ReadReleaseLocked(s1, t, FALSE)
          [] at = "r_rcond_out_x" -> ReadReleaseLocked(s1, t, TRUE)
          [] at = "w_rcond"       -> DrainLoop(s1, t)
          [] at = "w_reacq"       -> DrainLoop(s1, t)
          [] at = "w_reacq_c"     -> WriteAbort(s1, t)

\* Faulty variant: a cancelled waiter that was handed the lock keeps the wake-up.
AcquireCancelledNoWake(s, t) ==
    LET s0 == [s EXCEPT ![LockOf(s.pc[t])].waiters = Remove(@, t),
                        !.fut[t] = "none", !.creq[t] = FALSE]
    IN  IF s.pc[t] \in {"r_wlock", "w_wlock"} THEN [s0 EXCEPT !.pc[t] = "cancelled"]
        ELSE s0

\* Lock.acquire when CancelledError is thrown at its await: leave the
\* waiters, pass a wake-up on if the lock is free, and raise.
AcquireCancelled(s, t) ==
    LET at == s.pc[t]
        L  == LockOf(at)
        s0 == [s EXCEPT ![L].waiters = Remove(@, t), !.fut[t] = "none",
                        !.creq[t] = FALSE]
        s1 == IF ~s0[L].locked THEN WakeUpFirst(s0, L) ELSE s0
    IN  CASE at \in {"r_wlock", "w_wlock"}            -> Unwind(s1, t)
          [] at \in {"r_rcond_in", "w_rcond"}         -> Unwind(Release(s1, "wlock"), t)
          [] at \in {"r_rcond_out", "r_rcond_out_x"}  -> Unwind(Pop(s1, t), t)
          [] at \in {"w_reacq", "w_reacq_c"}          -> Reacquire(s1, t, TRUE)

\* Condition.wait after its await: leave the condition's waiters, reacquire.
Woken(s, t) ==
    LET s1 == [s EXCEPT !.cwaiters = Remove(@, t), !.fut[t] = "none",
                        !.creq[t] = FALSE]
    IN  Reacquire(s1, t, s.creq[t])

\* Faulty variant: set_value assigns to the Writer, not to the RwLock.
StoreElsewhere(s, v) == [s EXCEPT !.written = v]

\* Writer.set_value (line 66)
Store(s, v) == [s EXCEPT !.value = v, !.written = v]

\* ------------------------------------------------------------------ actions
HoldsWrite(t) == \E i \in 1..Len(stack[t]) : stack[t][i].k = "write"
HoldsRead(t) == \E i \in 1..Len(stack[t]) : stack[t][i].k = "read"

\* A task that holds a read guard is inside write(), or holds a write handle
\* and is inside read(): a re-entrant call of the other kind.
Upgrading(t) ==
    /\ HoldsRead(t) /\ ~HoldsWrite(t)
    /\ pc[t] \in {"w_wlock", "w_rcond", "w_drain", "w_reacq", "w_reacq_c"}

Downgrading(t) ==
    /\ HoldsWrite(t)
    /\ pc[t] \in {"r_wlock", "r_rcond_in"}

Stuck(t) == Upgrading(t) \/ Downgrading(t)

\* A call of read() or write(), with the history of when it was made.
Called(s, t) == [s EXCEPT !.late[t] = \E u \in Tasks : Stuck(u)]

\* A task calls read().
CallRead(t) ==
    /\ pc[t] = "idle"
    /\ Apply(Called(ReadCall(St, t), t))

\* A task calls write().
CallWrite(t) ==
    /\ pc[t] = "idle"
    /\ Apply(Called(WriteCall(St, t), t))

\* A task suspended in Lock.acquire runs again.
ResumeAcquire(t) ==
    /\ pc[t] \in LockWaits
    /\ fut[t] # "pending"
    /\ Apply(IF creq[t] THEN AcquireCancelled(St, t) ELSE Acquired(St, t))

\* A task suspended in Condition.wait runs again.
ResumeWait(t) ==
    /\ pc[t] = "w_drain"
    /\ fut[t] # "pending"
    /\ Apply(Woken(St, t))

\* The holder of a write handle calls set_value(v).
SetValue(t, v) ==
    /\ pc[t] = "cs"
    /\ ~creq[t]
    /\ HoldsWrite(t)
    /\ Apply(Store(St, v))

\* The body of `async with lock.read()` ends.
ExitRead(t) ==
    /\ pc[t] = "cs"
    /\ ~creq[t]
    /\ Top(St, t).k = "read"
    /\ Apply(ReadRelease(St, t, FALSE))

\* The body of `async with lock.write()` ends.
ExitWrite(t) ==
    /\ pc[t] = "cs"
    /\ ~creq[t]
    /\ Top(St, t).k = "write"
    /\ Apply(WriteRelease(St, t, FALSE))

Next ==
    \E t \in Tasks :
        \/ CallRead(t)
        \/ CallWrite(t)
        \/ ResumeAcquire(t)
        \/ ResumeWait(t)
        \/ \E v \in Values : SetValue(t, v)
        \/ ExitRead(t)
        \/ ExitWrite(t)

Spec == Init /\ [][Next]_vars

\* ------------------------------------------------------------ cancellation
\* Task.cancel() on a suspended task: a pending future is cancelled, and a
\* CancelledError is thrown into the task when it next runs.
Cancel(t) ==
    /\ pc[t] \in LockWaits \cup {"w_drain", "cs"}
    /\ ~creq[t]
    /\ creq' = [creq EXCEPT ![t] = TRUE]
    /\ fut' = [fut EXCEPT ![t] = IF @ = "pending" THEN "cancelled" ELSE @]
    /\ UNCHANGED <<value, readers, wlock, rlock, cwaiters, pc, stack, written, late, err>>

\* The CancelledError reaches a task suspended inside a critical section.
ThrowInBody(t) ==
    /\ pc[t] = "cs"
    /\ creq[t]
    /\ Apply(Unwind([St EXCEPT !.creq[t] = FALSE], t))

CancelNext ==
    \/ Next
    \/ \E t \in Tasks : Cancel(t) \/ ThrowInBody(t)

CancelSpec == Init /\ [][CancelNext]_vars

\* ------------------------------------------------------------- scheduling
\* What the event loop runs for a task: its call, its resumption once the
\* future it awaits is done, and the end of its critical section (every
\* body is taken to end).
Progress(t) ==
    \/ CallRead(t)
    \/ CallWrite(t)
    \/ ResumeAcquire(t)
    \/ ResumeWait(t)
    \/ ExitRead(t)
    \/ ExitWrite(t)

FairSpec == Spec /\ \A t \in Tasks : WF_vars(Progress(t))

\* ------------------------------------------------------- streams of calls
\* A task whose operation is over starts another one: the tasks issue an
\* unbounded stream of read() and write() calls.
Restart(t) ==
    /\ pc[t] = "done"
    /\ pc' = [pc EXCEPT ![t] = "idle"]
    /\ UNCHANGED <<value, readers, wlock, rlock, cwaiters, fut, creq, stack,
                   written, late, err>>

LoopNext ==
    \/ Next
    \/ \E t \in Tasks : Restart(t)

FairLoopSpec ==
    Init /\ [][LoopNext]_vars /\ \A t \in Tasks : WF_vars(Progress(t))

\* ------------------------------------------------------ nested acquisition
\* A task inside a critical section calls read() on the same lock.
NestRead(t) ==
    /\ pc[t] = "cs"
    /\ ~creq[t]
    /\ Len(stack[t]) < MaxDepth
    /\ Apply(Called(ReadCall(St, t), t))

\* A task inside a critical section calls write() on the same lock.
NestWrite(t) ==
    /\ pc[t] = "cs"
    /\ ~creq[t]
    /\ Len(stack[t]) < MaxDepth
    /\ Apply(Called(WriteCall(St, t), t))

NestedNext ==
    \/ Next
    \/ \E t \in Tasks : NestRead(t) \/ NestWrite(t)

NestedSpec == Init /\ [][NestedNext]_vars

\* ------------------------------------------------------- derived notions
\* A writer owns _wlock from the return of its acquire until it leaves write().
WriterHoldsWlock(t) ==
    HoldsWrite(t) \/ pc[t] \in {"w_rcond", "w_drain", "w_reacq", "w_reacq_c"}

\* A writer holds _wlock or waits in its queue.
WriterOnWlock == \E t \in Tasks : WriterHoldsWlock(t) \/ pc[t] = "w_wlock"

ReadGuards(t) == Cardinality({i \in 1..Len(stack[t]) : stack[t][i].k = "read"})

RECURSIVE SumOver(_, _)
SumOver(f, S) ==
    IF S = {} THEN 0
    ELSE LET x == CHOOSE y \in S : TRUE IN f[x] + SumOver(f, S \ {x})

LiveReadGuards == SumOver([t \in Tasks |-> ReadGuards(t)], Tasks)

TypeOK ==
    /\ value \in Values
    /\ written \in Values
    /\ readers \in 0..(NTasks * MaxDepth)
    /\ wlock.locked \in BOOLEAN
    /\ rlock.locked \in BOOLEAN
    /\ \A t \in Tasks : fut[t] \in {"none", "pending", "done", "cancelled"}
    /\ \A t \in Tasks : pc[t] \in LockWaits \cup {"idle", "w_drain", "cs", "done", "cancelled"}
    /\ \A t \in Tasks : Len(stack[t]) <= MaxDepth
    /\ \A t \in Tasks : creq[t] \in BOOLEAN /\ late[t] \in BOOLEAN

\* The condition's lock is never held across a suspension point, so no
\* acquire of it ever suspends, and no release or notify ever raises.
RcondNeverAwaited ==
    /\ ~rlock.locked
    /\ rlock.waiters = <<>>
    /\ \A t \in Tasks : pc[t] \notin RcondWaits
    /\ ~err

\* ------------------------------------------------------------------- C1
\* C1: reader/writer mutual exclusion.  In every reachable state no task
\* holds a write handle while any task holds a read guard; a live write
\* handle implies that the reader count is 0, and a reader count above 0
\* implies that no write handle is live.
ReadWriteExclusion ==
    /\ \A t, u \in Tasks : ~(HoldsWrite(t) /\ HoldsRead(u))
    /\ (\E t \in Tasks : HoldsWrite(t)) => readers = 0
    /\ readers > 0 => \A t \in Tasks : ~HoldsWrite(t)

\* A reader inside its critical section, a writer draining behind it and a
\* second reader queued behind the writer.
ReadWriteExclusionWitness ==
    \E t, u, w \in Tasks :
        /\ HoldsRead(t) /\ pc[t] = "cs"
        /\ pc[w] = "w_drain" /\ fut[w] = "pending"
        /\ pc[u] = "r_wlock"

\* ------------------------------------------------------------------- C2
\* C2: writer/writer mutual exclusion.  In every reachable state at most one
\* task holds a write handle, however many tasks have called write().
WriterExclusion == Cardinality({t \in Tasks : HoldsWrite(t)}) <= 1

\* One writer in its critical section, every other task a writer waiting.
WriterExclusionWitness ==
    \E t \in Tasks :
        /\ HoldsWrite(t)
        /\ \A u \in Tasks \ {t} : pc[u] = "w_wlock"

\* ------------------------------------------------------------------- C3
\* C3: readers do not serialize against each other.  Whenever no writer
\* holds or is queued on _wlock, the mutex is free; a read() called when its
\* queue is empty is admitted in that very step, and the first queued read()
\* is runnable and is admitted when it runs, however many read guards are
\* live.  Two simultaneously live read guards are reachable (the witness).
ReadConcurrency ==
    ~WriterOnWlock =>
        /\ ~wlock.locked
        /\ \A t \in Tasks :
              (pc[t] = "idle" /\ wlock.waiters = <<>>) =>
                  LET s == ReadCall(St, t)
                  IN  s.pc[t] = "cs" /\ s.readers = readers + 1
        /\ wlock.waiters # <<>> =>
              LET h == Head(wlock.waiters)
              IN  /\ fut[h] # "pending"
                  /\ ~creq[h] =>
                        LET s == Acquired(St, h)
                        IN  s.pc[h] = "cs" /\ s.readers = readers + 1

\* Two read guards are live and the third task, calling read() now, would
\* be the third.
ReadConcurrencyWitness ==
    \E t, u, x \in Tasks :
        /\ t # u
        /\ HoldsRead(t) /\ HoldsRead(u) /\ readers = 2
        /\ pc[x] = "idle"
        /\ ~WriterOnWlock

\* ------------------------------------------------------------------- C4
\* C4: drain correctness.  A writer that called write() while read guards
\* were live is not admitted before all of them are released: as long as a
\* read guard is live, a writer in the drain loop stays suspended on the
\* condition (its future is pending, or it was cancelled and then leaves
\* without a handle), and the step that admits a writer starts in a state
\* with no live read guard and a reader count of 0.
DrainStaysBlocked ==
    \A w \in Tasks :
        (pc[w] = "w_drain" /\ \E r \in Tasks : HoldsRead(r)) =>
            /\ readers > 0
            /\ fut[w] = "pending" \/ creq[w]
            /\ fut[w] # "pending" => ~HoldsWrite(w) /\ Woken(St, w).stack[w] = <<>>

AdmitsOnlyDrained ==
    \A w \in Tasks :
        (~HoldsWrite(w) /\ HoldsWrite(w)') =>
            /\ readers = 0
            /\ \A r \in Tasks : ~HoldsRead(r)

DrainCorrectness == []DrainStaysBlocked /\ [][AdmitsOnlyDrained]_vars

\* Two readers are live while a writer drains: they can release in either
\* order.
DrainCorrectnessWitness ==
    \E w, r1, r2 \in Tasks :
        /\ r1 # r2
        /\ pc[w] = "w_drain"
        /\ HoldsRead(r1) /\ HoldsRead(r2)

\* ------------------------------------------------------------------- C5
\* C5: a writer blocks new readers from the moment it owns _wlock.  In a
\* step that starts in a state where a writer holds _wlock (draining or in
\* its critical section), the reader count does not grow and no task gains
\* a read guard.
WriterBlocksReadersStep ==
    (\E w \in Tasks : WriterHoldsWlock(w)) =>
        /\ readers' <= readers
        /\ \A t \in Tasks : ReadGuards(t)' <= ReadGuards(t)

WriterBlocksReaders == [][WriterBlocksReadersStep]_vars

\* A reader is queued on _wlock behind a writer that is inside its critical
\* section and has set a value.
WriterBlocksReadersWitness ==
    \E w, r \in Tasks :
        /\ HoldsWrite(w)
        /\ pc[r] = "r_wlock" /\ fut[r] = "pending"
        /\ value # InitValue

\* ------------------------------------------------------------------- C6
\* C6: value visibility.  The value a read() yields at its admission is the
\* argument of the most recent set_value executed before (the constructor's
\* value if there was none), which is also the value the lock stores.
ValueVisibilityStep ==
    \A t \in Tasks :
        ReadGuards(t)' > ReadGuards(t) =>
            /\ stack'[t][Len(stack'[t])].v = written
            /\ written' = written

ValueVisibility == [](value = written) /\ [][ValueVisibilityStep]_vars

\* A reader observes a value that a writer, now done, has set.
ValueVisibilityWitness ==
    \E r, w \in Tasks :
        /\ HoldsRead(r) /\ stack[r][1].v # InitValue
        /\ pc[w] = "done"

\* ------------------------------------------------------------------- C7
\* C7: cancellation atomicity.  When the CancelledError reaches a task that
\* is suspended before admission (on _wlock, or in the drain loop), the step
\* that handles it leaves the reader count and the value as they were, ends
\* the task without a guard and outside every queue, with _rcond's lock free
\* and _wlock as before (released, if the cancelled writer held it); and in
\* every state a free _wlock with a queue has a first waiter that can run,
\* a held _wlock has a writer that holds it, so the others are still admitted.
Outside(s, t) ==
    /\ \A i \in 1..Len(s.wlock.waiters) : s.wlock.waiters[i] # t
    /\ \A i \in 1..Len(s.rlock.waiters) : s.rlock.waiters[i] # t
    /\ \A i \in 1..Len(s.cwaiters) : s.cwaiters[i] # t

Untouched(s, t) ==
    /\ s.readers = readers
    /\ s.value = value
    /\ s.pc[t] = "cancelled"
    /\ s.stack[t] = <<>>
    /\ ~s.rlock.locked
    /\ ~s.err
    /\ Outside(s, t)

CancellationAtomicity ==
    /\ \A t \in Tasks :
          (creq[t] /\ pc[t] \in {"r_wlock", "w_wlock"}) =>
              /\ fut[t] # "pending"
              /\ LET s == AcquireCancelled(St, t)
                 IN  Untouched(s, t) /\ s.wlock.locked = wlock.locked
    /\ \A t \in Tasks :
          (creq[t] /\ pc[t] = "w_drain") =>
              /\ fut[t] # "pending"
              /\ LET s == Woken(St, t)
                 IN  Untouched(s, t) /\ ~s.wlock.locked
    /\ \A t \in Tasks : pc[t] = "cancelled" => stack[t] = <<>> /\ Outside(St, t)
    /\ wlock.locked <=> \E w \in Tasks : WriterHoldsWlock(w)
    /\ (~wlock.locked /\ wlock.waiters # <<>>) => fut[Head(wlock.waiters)] # "pending"

\* A reader that was handed the mutex is cancelled before it runs, while
\* another task waits behind it.
CancellationAtomicityWitness ==
    \E t, u \in Tasks :
        /\ creq[t] /\ pc[t] = "r_wlock" /\ fut[t] = "done"
        /\ pc[u] \in {"r_wlock", "w_wlock"} /\ fut[u] = "pending"

\* ------------------------------------------------------------------- C8
\* C8: guard release is unconditional and exactly-once.  Every step changes
\* the reader count by exactly the change in the number of live read guards
\* (a guard that ends, normally or by a CancelledError, takes one off; nothing
\* else does); a step that ends a write handle releases _wlock, which was
\* held, without an error; a task that is done or cancelled holds no guard;
\* and the release step never waits for the condition's lock, so no
\* cancellation can reach it there.
GuardReleaseStep ==
    /\ readers' - readers = LiveReadGuards' - LiveReadGuards
    /\ \A t \in Tasks :
          (HoldsWrite(t) /\ ~HoldsWrite(t)') =>
              wlock.locked /\ ~wlock'.locked /\ ~err'

GuardsReleased ==
    /\ \A t \in Tasks : pc[t] \in {"done", "cancelled"} => stack[t] = <<>>
    /\ \A t \in Tasks : pc[t] \notin {"r_rcond_out", "r_rcond_out_x"}

GuardRelease == []GuardsReleased /\ [][GuardReleaseStep]_vars

\* A CancelledError is about to be thrown into a reader inside its critical
\* section, the last one a draining writer waits for.
GuardReleaseWitness ==
    \E t, w \in Tasks :
        /\ creq[t] /\ pc[t] = "cs" /\ HoldsRead(t)
        /\ readers = 1
        /\ pc[w] = "w_drain"

\* ------------------------------------------------------------------- C9
\* C9: deadlock freedom under contention.  With every task performing one
\* read() or write() and every critical section ending, no reachable state
\* is a deadlock (either all tasks are done or the event loop can run one),
\* and under weak fairness of the tasks' steps every task completes.
AllDone == \A t \in Tasks : pc[t] = "done"

DeadlockFreedom ==
    /\ [](AllDone \/ \E t \in Tasks : ENABLED Progress(t))
    /\ <>AllDone

\* Contention: a reader in its critical section, a writer draining behind
\* it, and a third task queued on the mutex the writer holds.
DeadlockFreedomWitness ==
    \E r, w, x \in Tasks :
        /\ HoldsRead(r)
        /\ pc[w] = "w_drain"
        /\ pc[x] \in {"r_wlock", "w_wlock"} /\ fut[x] = "pending"
        /\ wlock.locked

\* ------------------------------------------------------------------ C10
\* C10: re-entrant upgrade and downgrade deadlock.  A task that holds a read
\* guard and calls write(), or holds a write handle and calls read(), is
\* never admitted: no task ever holds a read guard and a write handle at
\* once, and such a task stays in its acquisition for ever.  Every read()
\* and write() called once a task is stuck this way is blocked for ever: it
\* stays queued on _wlock with a pending future.
StuckStays == \A t \in Tasks : Stuck(t) => Stuck(t)'

LateBlocked ==
    \A u \in Tasks : late[u] => pc[u] \in {"r_wlock", "w_wlock"} /\ fut[u] = "pending"

NeverBoth == \A t \in Tasks : ~(HoldsRead(t) /\ HoldsWrite(t))

ReentrantDeadlock == [](NeverBoth /\ LateBlocked) /\ [][StuckStays]_vars

\* A task holding a read guard drains for ever in write(), holding _wlock,
\* and a read() called later is queued behind it.
ReentrantDeadlockWitness ==
    \E t, u \in Tasks :
        /\ Upgrading(t) /\ pc[t] = "w_drain"
        /\ readers = 1
        /\ pc[u] = "r_wlock" /\ late[u]

\* The other case: a task holding the write handle waits in read() for the
\* mutex it holds itself.
DowngradeReachable ==
    \E t \in Tasks : Downgrading(t) /\ pc[t] = "r_wlock" /\ wlock.locked

InAcquire(t) == pc[t] \in LockWaits \cup {"w_drain"}

Position(q, t) == CHOOSE i \in 1..Len(q) : q[i] = t

Queued(q, t) == \E i \in 1..Len(q) : q[i] = t

NoOvertaking ==
    \A r, w \in Tasks :
        (ReadGuards(r)' > ReadGuards(r) /\ pc[w] = "w_wlock") =>
            /\ Queued(wlock.waiters, r)
            /\ Position(wlock.waiters, r) < Position(wlock.waiters, w)

Admitted(t) == InAcquire(t) /\ ~InAcquire(t)' => pc'[t] = "cs"

FifoFairness ==
    /\ \A t \in Tasks : []<>(~InAcquire(t))
    /\ [][\A t \in Tasks : Admitted(t)]_vars
    /\ [][NoOvertaking]_vars

\* The mutex was handed to a queued writer that has not run yet, and a
\* read() called after it is queued behind it although the mutex is free.
FifoFairnessWitness ==
    \E w, r \in Tasks :
        /\ ~wlock.locked
        /\ pc[w] = "w_wlock" /\ fut[w] = "done"
        /\ pc[r] = "r_wlock" /\ fut[r] = "pending"
        /\ Position(wlock.waiters, w) < Position(wlock.waiters, r)

\* ------------------------------------------------------------------ C13
\* C13: the reader count equals the number of tasks that have been through
\* read()'s increment and not yet through the decrement of its release, and
\* it is never negative.
ReaderAccounting ==
    /\ readers = Cardinality({t \in Tasks : HoldsRead(t)})
    /\ readers >= 0

\* Two readers are counted and a third task's operation is over.
ReaderAccountingWitness ==
    /\ readers = 2
    /\ \E t \in Tasks : pc[t] \in {"done", "cancelled"}

\* ------------------------------------------------------------------ C14
\* C14: no wake-up is lost on drain.  Under weak fairness, with every
\* critical section ending, a writer waiting on the condition is waiting
\* again and again only, and the step that ends its wait finds the reader
\* count 0 and admits it; a writer never waits on the condition with the
\* reader count 0 and its notification not delivered.
WaitEndsAdmitted ==
    \A w \in Tasks :
        (pc[w] = "w_drain" /\ pc'[w] # "w_drain") =>
            /\ pc'[w] = "cs" /\ HoldsWrite(w)'
            /\ readers = 0 /\ readers' = 0

NoLostWakeup ==
    /\ \A w \in Tasks : []<>(pc[w] # "w_drain")
    /\ [][WaitEndsAdmitted]_vars
    /\ [](\A w \in Tasks :
            (pc[w] = "w_drain" /\ readers = 0) => fut[w] = "done")

\* The last reader has left and the waiting writer is notified, not yet run.
NoLostWakeupWitness ==
    \E w \in Tasks : pc[w] = "w_drain" /\ readers = 0 /\ fut[w] = "done"

\* ------------------------------------------------------------------ C15
\* C15: a task inside its write() critical section holds _wlock, in every
\* state from its admission to its release: the mutex is locked, no other
\* task is a writer that has acquired it, and the condition's lock is free.
WriteHandleOwnsMutex ==
    \A t \in Tasks :
        HoldsWrite(t) =>
            /\ wlock.locked
            /\ \A u \in Tasks \ {t} : ~WriterHoldsWlock(u)
            /\ ~rlock.locked

\* A writer has stored a value and is suspended in its critical section
\* while another call is queued on the mutex.
WriteHandleOwnsMutexWitness ==
    \E t, u \in Tasks :
        /\ HoldsWrite(t) /\ pc[t] = "cs" /\ value # InitValue
        /\ pc[u] \in {"r_wlock", "w_wlock"} /\ fut[u] = "pending"

\* ------------------------------------------------------------------ C16
\* C16: a task inside its read() critical section holds neither lock: the
\* condition's lock is free, and _wlock, when locked, is held by a writer,
\* which is another task.
ReaderHoldsNoLock ==
    \A t \in Tasks :
        (pc[t] = "cs" /\ HoldsRead(t)) =>
            /\ ~rlock.locked
            /\ wlock.locked => \E u \in Tasks \ {t} : WriterHoldsWlock(u)

\* A reader is in its critical section with the mutex free, and a second
\* one with the mutex held by a draining writer.
ReaderHoldsNoLockWitness ==
    \E t, u \in Tasks :
        /\ pc[t] = "cs" /\ HoldsRead(t)
        /\ pc[u] = "w_drain" /\ wlock.locked

\* ------------------------------------------------------------------ C17
\* C17: the guarded value changes only in a set_value step of the task that
\* holds the write handle, which stays in its critical section; every other
\* step (admission, release, drain-wait, cancellation) leaves it unchanged;
\* and no step changes it while a read guard is live.
SetValueStep ==
    \E t \in Tasks :
        /\ pc[t] = "cs" /\ HoldsWrite(t)
        /\ value' = written'
        /\ UNCHANGED <<readers, wlock, rlock, cwaiters, pc, fut, creq, stack>>

ValueFrameStep ==
    /\ value' # value => SetValueStep
    /\ (\E r \in Tasks : HoldsRead(r)) => value' = value

ValueFrame == [][ValueFrameStep]_vars

\* A reader is suspended holding a guard on a value a writer has set, and
\* another task's operation was cancelled.
ValueFrameWitness ==
    \E r, u \in Tasks :
        /\ HoldsRead(r) /\ pc[r] = "cs"
        /\ value # InitValue /\ Top(St, r).v = value
        /\ pc[u] = "cancelled"

\* ------------------------------------------------------------------ C18
\* C18 as stated: the lock refines the four-state machine.  Under the mapping
\* below, every step of read(), write() and their releases is a stutter or
\* one of
\* Idle -> ReadersActive(1), ReadersActive(n) -> ReadersActive(n+1),
\* ReadersActive(n) -> ReadersActive(n-1) or Idle, Idle -> WriterActive,
\* ReadersActive(n) -> WriterWaitingForDrain -> WriterActive,
\* WriterActive -> Idle.
WriterActive == \E t \in Tasks : HoldsWrite(t)

WriterWaiting == ~WriterActive /\ \E t \in Tasks : WriterHoldsWlock(t)

Machine ==
    IF WriterActive THEN [s |-> "WriterActive", n |-> 0]
    ELSE IF WriterWaiting THEN [s |-> "WriterWaitingForDrain", n |-> 0]
    ELSE IF readers = 0 THEN [s |-> "Idle", n |-> 0]
    ELSE [s |-> "ReadersActive", n |-> readers]

Listed(a, b) ==
    \/ a.s = "Idle" /\ b.s = "ReadersActive" /\ b.n = 1
    \/ a.s = "ReadersActive" /\ b.s = "ReadersActive" /\ b.n = a.n + 1
    \/ a.s = "ReadersActive" /\ b.s = "ReadersActive" /\ b.n = a.n - 1
    \/ a.s = "ReadersActive" /\ a.n = 1 /\ b.s = "Idle"
    \/ a.s = "Idle" /\ b.s = "WriterActive"
    \/ a.s = "ReadersActive" /\ b.s = "WriterWaitingForDrain"
    \/ a.s = "WriterWaitingForDrain" /\ b.s = "WriterActive"
    \/ a.s = "WriterActive" /\ b.s = "Idle"

FourStateRefinement == [][Machine' = Machine \/ Listed(Machine, Machine')]_vars

\* C18, amended: every step is a stutter, a listed transition, or the
\* cancellation of a write() in its drain-wait, which takes
\* WriterWaitingForDrain back to ReadersActive(n), or to Idle when the last
\* reader has left, with the reader count unchanged.
DrainCancelled(a, b) ==
    /\ a.s = "WriterWaitingForDrain"
    /\ b.s \in {"ReadersActive", "Idle"}
    /\ readers' = readers
    /\ \E t \in Tasks : pc[t] = "w_drain" /\ pc'[t] = "cancelled"

FourStateRefinementCancel ==
    [][\/ Machine' = Machine
       \/ Listed(Machine, Machine')
       \/ DrainCancelled(Machine, Machine')]_vars

\* A writer holds the mutex and waits for the last reader to drain; its
\* wait has been cancelled and it has not run yet.
FourStateRefinementCancelWitness ==
    /\ Machine.s = "WriterWaitingForDrain"
    /\ readers = 1
    /\ \E t \in Tasks : pc[t] = "w_drain" /\ fut[t] = "cancelled"

\* ------------------------------------------------------------------ C19
\* C19: nested read acquisition is not safe.  A task that holds a read guard
\* and calls read() again while no writer holds or is queued on _wlock is
\* admitted, at once or after the woken readers queued ahead of it; when a
\* writer holds _wlock and waits for drain, the nested read() waits on
\* _wlock while the writer waits for the outer guard, and neither task ever
\* leaves that state.
Ahead(q, t) == {q[i] : i \in 1..(Position(q, t) - 1)}

NestedReadAdmitted ==
    \A t \in Tasks :
        (pc[t] = "cs" /\ HoldsRead(t) /\ ~creq[t] /\ ~WriterOnWlock) =>
            LET s == ReadCall(St, t)
            IN  \/ /\ s.pc[t] = "cs"
                   /\ Len(s.stack[t]) = Len(stack[t]) + 1
                   /\ s.readers = readers + 1
                \/ /\ s.pc[t] = "r_wlock" /\ ~s.wlock.locked
                   /\ s.fut[Head(s.wlock.waiters)] = "done"
                   /\ \A u \in Ahead(s.wlock.waiters, t) :
                        s.pc[u] = "r_wlock"

NestedReadBlocked(t, w) ==
    /\ HoldsRead(t) /\ pc[t] = "r_wlock" /\ fut[t] = "pending"
    /\ pc[w] = "w_drain" /\ fut[w] = "pending"
    /\ readers > 0

NestedReadDeadlock ==
    /\ [](NestedReadAdmitted)
    /\ [][\A t, w \in Tasks :
            NestedReadBlocked(t, w) => NestedReadBlocked(t, w)']_vars

\* The deadlock: the outer guard is the only live one, the writer drains,
\* the nested read() is queued on the mutex the writer holds.
NestedReadDeadlockWitness ==
    \E t, w \in Tasks :
        /\ NestedReadBlocked(t, w)
        /\ readers = 1 /\ ~HoldsRead(w)
        /\ wlock.locked /\ Head(wlock.waiters) = t

\* ------------------------------------------------------------------ C20
\* C20: at most one task waits on the drain condition at a time, and that
\* task is a writer holding _wlock; the single notify() of the last reader
\* reaches it: the step that brings the reader count to 0 sets the future
\* of the waiting writer.
OneDrainWaiter ==
    /\ Len(cwaiters) <= 1
    /\ \A i \in 1..Len(cwaiters) :
        pc[cwaiters[i]] = "w_drain" /\ wlock.locked

NotifyReaches ==
    \A w \in Tasks :
        (pc[w] = "w_drain" /\ fut[w] = "pending" /\ readers > 0 /\ readers' = 0)
            => fut'[w] \in {"done", "cancelled"}

SingleNotifySuffices == []OneDrainWaiter /\ [][NotifyReaches]_vars

\* A writer waits on the condition for the last reader while another
\* writer is queued on the mutex.
SingleNotifySufficesWitness ==
    \E w, x \in Tasks :
        /\ cwaiters = <<w>> /\ fut[w] = "pending"
        /\ readers = 1
        /\ pc[x] = "w_wlock"

====
